---- MODULE Spec2Model ----
(***************************************************************************)
(* Model of the SpaceDJAgent component (src/src/App.tsx): the track        *)
(* registry, the playback controller, the spectrum sampler and the single  *)
(* <audio> element they drive.                                             *)
(*                                                                         *)
(* Every handler is one action.  A handler runs to completion, React       *)
(* commits the state it set and runs the effect of lines 48-53 with that   *)
(* commit, so the action of a handler that changes isPlaying includes the  *)
(* effect's cleanup and its re-run.  Handlers read the state of the last   *)
(* commit, which is the current value of the variables.                    *)
(*                                                                         *)
(* Numbers the code keeps as floats (currentTime, progress, the click      *)
(* fraction) are exact rationals [n, d] in lowest terms; volume is kept in *)
(* hundredths, the step of the slider.                                     *)
(***************************************************************************)
EXTENDS Integers, Sequences, FiniteSets, TLC

\* ---------------------------------------------------------------- bounds
\* files accepted for upload over a run (ids handed out or still to be)
MaxUploads == 2
\* deferred play callbacks pending at once
MaxTimers == 1

\* ---------------------------------------------------------------- constants
\* no track / no loaded resource (currentTrack = null)
None == 0
\* analyserRef.current.fftSize
fftSize == 128
\* new Array(64).fill(0)
InitialBins == 64
\* Uint8Array: the largest value of an entry
ByteMax == 255
\* useState(0.8), in hundredths
InitialVolume == 80
\* HTMLMediaElement.volume before anything sets it, in hundredths
DefaultAudioVolume == 100
\* ---------------------------------------------------------------- rationals
RECURSIVE GCD(_, _)
GCD(a, b) == IF b = 0 THEN a ELSE GCD(b, a % b)

Rat(n, d) == LET g == GCD(n, d) IN [n |-> n \div g, d |-> d \div g]

RatMul(a, b) == Rat(a.n * b.n, a.d * b.d)

RatDiv(a, b) == Rat(a.n * b.d, a.d * b.n)

RatInt(k) == [n |-> k, d |-> 1]

RatLess(a, b) == a.n * b.d < b.n * a.d

\* ---------------------------------------------------------------- files
\* file names as sequences of characters
NameA == <<"a">>
NameB == <<"b", ".", "m", "p", "3">>
NameD == <<"d", ".", "w", "a", "v">>
NameE == <<"e", ".", "M", "P", "3">>

DotMp3 == <<".", "m", "p", "3">>

\* The files a user may pick: type is File.type, name is File.name, duration
\* is what the decoder reports for the file (seconds).
FileA == [type |-> "audio/mpeg", name |-> NameA, duration |-> 2]
FileB == [type |-> "",           name |-> NameB, duration |-> 3]
FileD == [type |-> "audio/wav",  name |-> NameD, duration |-> 2]
FileE == [type |-> "",           name |-> NameE, duration |-> 3]

Files == { FileA, FileB, FileD, FileE }

\* String.prototype.endsWith
EndsWith(s, suffix) ==
  /\ Len(s) >= Len(suffix)
  /\ SubSeq(s, Len(s) - Len(suffix) + 1, Len(s)) = suffix

\* the test of line 60 widened to every file that declares a media type
AcceptsAnyTyped(file) ==
  \/ file.type # ""
  \/ EndsWith(file.name, DotMp3)

\* line 60: the test a file must pass to get a metadata listener
AcceptsFile(file) ==
  \/ file.type = "audio/mpeg"
  \/ file.type = "audio/mp3"
  \/ EndsWith(file.name, DotMp3)

\* the batches a file picker may deliver
Batches ==
  { <<f>> : f \in Files } \cup
  { <<FileD, FileA>>, <<FileB, FileE>>, <<FileA, FileB>>, <<FileD, FileE>> }

\* the clicks on the progress bar: x = e.clientX - rect.left and
\* width = rect.width, in pixels
Clicks == { [x |-> 0, width |-> 2], [x |-> 1, width |-> 2],
            [x |-> 2, width |-> 2] }

\* the fractions of the duration playback is observed at
Fractions == { [n |-> 0, d |-> 1], [n |-> 1, d |-> 2], [n |-> 1, d |-> 1] }

\* ---------------------------------------------------------------- state
VARIABLES
  tracks,        \* useState<Track[]>: sequence of [id, file, duration]
  currentTrack,  \* id of the current track, or None
  isPlaying,     \* useState(false)
  progress,      \* useState(0): percent, a rational
  volume,        \* useState(0.8), hundredths
  waveformData,  \* useState(new Array(64).fill(0))
  mounted,       \* the component is mounted: audioRef.current is the element
  graph,         \* audioContextRef/analyserRef/sourceRef are set
  frames,        \* scheduled animation-frame callbacks, oldest first; each is
                 \* the isPlaying its updateWaveform closure captured
  animationRef,  \* index in frames of the callback animationRef.current
                 \* names, 0 when that id is no longer scheduled
  timers,        \* pending setTimeout callbacks of playTrack, oldest first;
                 \* each is the id of the track it was started for
  pendingMeta,   \* files with a loadedmetadata listener not yet fired
  nextId,        \* ids handed out so far
  audioSrc,      \* track whose resource the <audio> element has loaded
  audioDuration, \* HTMLMediaElement.duration of that resource, seconds
  paused,        \* HTMLMediaElement.paused
  ended,         \* HTMLMediaElement.ended
  currentTime,   \* HTMLMediaElement.currentTime, seconds, a rational
  audioVolume,   \* HTMLMediaElement.volume, hundredths
  handleCmd,     \* last command the element received: none, play or pause
  issued,        \* commands the last step sent to the element, in order
  lastOp,        \* the last step, by name; a frame that published a
                 \* snapshot is "sample"
  toggleHist     \* [playing, track] before each of the last (at most two)
                 \* togglePlay calls made in a row with no step between

vars ==
  << tracks, currentTrack, isPlaying, progress, volume, waveformData, mounted,
     graph, frames, animationRef, timers, pendingMeta, nextId, audioSrc,
     audioDuration, paused, ended, currentTime, audioVolume, handleCmd,
     issued, lastOp, toggleHist >>

ui == << tracks, currentTrack, isPlaying, progress, volume, waveformData >>

sampler == << graph, frames, animationRef >>

handle ==
  << audioSrc, audioDuration, paused, ended, currentTime, audioVolume,
     handleCmd >>

uploads == << pendingMeta, nextId >>

\* ---------------------------------------------------------------- helpers
TrackIds == { tracks[i].id : i \in 1..Len(tracks) }

TrackOf(id) == CHOOSE t \in { tracks[i] : i \in 1..Len(tracks) } : t.id = id

RECURSIVE Filter(_, _)
\* prev.filter(t => t.id !== id)
Filter(s, id) ==
  IF s = <<>> THEN <<>>
  ELSE IF Head(s).id # id THEN <<Head(s)>> \o Filter(Tail(s), id)
       ELSE Filter(Tail(s), id)

RECURSIVE Accepted(_)
\* the files of a batch that pass the test of line 60, in order
Accepted(batch) ==
  IF batch = <<>> THEN <<>>
  ELSE IF AcceptsFile(Head(batch)) THEN <<Head(batch)>> \o Accepted(Tail(batch))
       ELSE Accepted(Tail(batch))

RemoveAt(s, i) == SubSeq(s, 1, i - 1) \o SubSeq(s, i + 1, Len(s))

\* state `isDragging`: declared on line 18 and never set
isDragging == FALSE

\* audioRef.current is the element while the component is mounted
audioRefCurrent == mounted

\* analyserRef.current is set exactly when the graph was created (line 31)
analyserRefCurrent == graph

\* frequencyBinCount taken to be the transform size itself
frequencyBinCountFull == fftSize

\* analyserRef.current.frequencyBinCount: half the transform size
frequencyBinCount == fftSize \div 2

\* levels the analyser may report in a frame
SampleLevels == {0, ByteMax}

\* getByteFrequencyData into a Uint8Array of frequencyBinCount entries: what
\* the analyser reports, stored as bytes
ByteFrequencyData(level) ==
  [i \in 1..frequencyBinCount |-> (level * i) % (ByteMax + 1)]

\* values the volume slider may deliver (min and max of the range input)
Volumes == {0, 100}

\* ---------------------------------------------------------------- frames
\* cancelAnimationFrame(animationRef.current)
CancelFrame(fr, ref) ==
  IF ref = 0 THEN [frames |-> fr, ref |-> 0]
  ELSE [frames |-> RemoveAt(fr, ref), ref |-> 0]

\* animationRef.current = requestAnimationFrame(updateWaveform), where
\* updateWaveform captured isPlaying = closure
RequestFrame(fr, closure) ==
  [frames |-> Append(fr, closure), ref |-> Len(fr) + 1]

\* a cleanup that cancels nothing
CleanupNoCancel(fr, ref) == [frames |-> fr, ref |-> ref]

\* line 52: the cleanup of the effect
Cleanup(fr, ref) == CancelFrame(fr, ref)

\* the effect without its test of isPlaying: every run requests a frame
EffectAlwaysRequests(newPlaying) ==
  IF newPlaying = isPlaying THEN [frames |-> frames, ref |-> animationRef]
  ELSE RequestFrame(Cleanup(frames, animationRef).frames, newPlaying)

\* lines 48-53: the effect as React runs it when a commit changes isPlaying
\* to newPlaying (its dependencies change exactly then): cleanup of the
\* previous run, then the new run
Effect(newPlaying) ==
  IF newPlaying = isPlaying THEN [frames |-> frames, ref |-> animationRef]
  ELSE LET c == Cleanup(frames, animationRef) IN
       IF newPlaying THEN RequestFrame(c.frames, newPlaying) ELSE c

\* commit of a new value of isPlaying
SetIsPlaying(newPlaying) ==
  /\ isPlaying' = newPlaying
  /\ frames' = Effect(newPlaying).frames
  /\ animationRef' = Effect(newPlaying).ref

\* ---------------------------------------------------------------- element
\* audioRef.current.play()
AudioPlay ==
  /\ handleCmd' = "play"
  /\ paused' = FALSE
  /\ ended' = FALSE
  /\ currentTime' = IF ended THEN RatInt(0) ELSE currentTime
  /\ UNCHANGED << audioSrc, audioDuration, audioVolume >>

\* audioRef.current.pause()
AudioPause ==
  /\ handleCmd' = "pause"
  /\ paused' = TRUE
  /\ UNCHANGED << audioSrc, audioDuration, audioVolume, ended, currentTime >>

\* src={currentTrack?.url} changing to the url of track t: the element loads
\* the new resource, paused, at position 0
AudioLoad(t) ==
  /\ audioSrc' = t.id
  /\ audioDuration' = t.duration
  /\ paused' = TRUE
  /\ ended' = FALSE
  /\ currentTime' = RatInt(0)
  /\ UNCHANGED << audioVolume, handleCmd >>

\* lines 28-37
InitAudioContext == graph' = (graph \/ audioRefCurrent)

\* ---------------------------------------------------------------- Init
Init ==
  /\ tracks = <<>>
  /\ currentTrack = None
  /\ isPlaying = FALSE
  /\ progress = RatInt(0)
  /\ volume = InitialVolume
  /\ waveformData = [i \in 1..InitialBins |-> 0]
  /\ mounted = TRUE
  /\ graph = FALSE
  /\ frames = <<>>
  /\ animationRef = 0
  /\ timers = <<>>
  /\ pendingMeta = <<>>
  /\ nextId = 0
  /\ audioSrc = None
  /\ audioDuration = 0
  /\ paused = TRUE
  /\ ended = FALSE
  /\ currentTime = RatInt(0)
  /\ audioVolume = DefaultAudioVolume
  /\ handleCmd = "none"
  /\ issued = <<>>
  /\ lastOp = "init"
  /\ toggleHist = <<>>

\* ---------------------------------------------------------------- upload
\* lines 55-75: every accepted file gets an Audio with a loadedmetadata
\* listener; the others are skipped
handleFileUpload(batch) ==
  /\ mounted
  /\ nextId + Len(pendingMeta) + Len(Accepted(batch)) <= MaxUploads
  /\ pendingMeta' = pendingMeta \o Accepted(batch)
  /\ lastOp' = "upload"
  /\ issued' = <<>>
  /\ toggleHist' = <<>>
  /\ UNCHANGED << ui, mounted, sampler, timers, nextId, handle >>

\* lines 63-72: the listener of the i-th pending file appends the new track
LoadedMetadata(i) ==
  /\ i \in 1..Len(pendingMeta)
  /\ pendingMeta' = RemoveAt(pendingMeta, i)
  /\ nextId' = nextId + 1
  /\ tracks' =
       IF mounted
       THEN Append(tracks, [id |-> nextId + 1, file |-> pendingMeta[i],
                            duration |-> pendingMeta[i].duration])
       ELSE tracks
  /\ lastOp' = "loadedmetadata"
  /\ issued' = <<>>
  /\ toggleHist' = <<>>
  /\ UNCHANGED << currentTrack, isPlaying, progress, volume, waveformData,
                  mounted, sampler, timers, handle >>

\* ---------------------------------------------------------------- playback
\* togglePlay that sets isPlaying to true instead of flipping it
togglePlaySetsTrue ==
  IF audioRefCurrent
  THEN /\ IF isPlaying
          THEN AudioPause /\ graph' = graph /\ issued' = <<"pause">>
          ELSE InitAudioContext /\ AudioPlay /\ issued' = <<"play">>
       /\ SetIsPlaying(TRUE)
  ELSE /\ issued' = <<>>
       /\ UNCHANGED << isPlaying, sampler, handle >>

\* lines 92-102, the body of togglePlay
togglePlay ==
  IF audioRefCurrent
  THEN /\ IF isPlaying
          THEN AudioPause /\ graph' = graph /\ issued' = <<"pause">>
          ELSE InitAudioContext /\ AudioPlay /\ issued' = <<"play">>
       /\ SetIsPlaying(~isPlaying)
  ELSE /\ issued' = <<>>
       /\ UNCHANGED << isPlaying, sampler, handle >>

\* the pre-states of the togglePlay calls made in a row, the last two kept
ToggleHistAfter ==
  LET pre == [playing |-> isPlaying, track |-> currentTrack] IN
  IF Len(toggleHist) < 2 THEN Append(toggleHist, pre)
  ELSE << toggleHist[2], pre >>

\* line 325: a click on the play button, rendered while a track is current
\* (line 294): what it does to the program
TogglePlayStep ==
  /\ mounted
  /\ currentTrack # None
  /\ togglePlay
  /\ toggleHist' = ToggleHistAfter
  /\ UNCHANGED << tracks, currentTrack, progress, volume, waveformData,
                  mounted, timers, uploads >>

\* the click on the play button as a step
TogglePlay == TogglePlayStep /\ lastOp' = "togglePlay"

\* playTrack without the test of line 78: every click switches
playTrackAlwaysSwitches(id) ==
  /\ mounted
  /\ id \in TrackIds
  /\ Len(timers) < MaxTimers
  /\ currentTrack' = id
  /\ SetIsPlaying(TRUE)
  /\ timers' = Append(timers, id)
  /\ AudioLoad(TrackOf(id))
  /\ issued' = <<>>
  /\ toggleHist' = <<>>
  /\ lastOp' = "select"
  /\ UNCHANGED << graph, tracks, progress, volume, waveformData, mounted,
                  uploads >>

\* lines 77-90 (line 431: a click on a listed track)
playTrack(id) ==
  /\ mounted
  /\ id \in TrackIds
  /\ IF currentTrack = id
     THEN /\ togglePlay
          /\ toggleHist' = ToggleHistAfter
          /\ UNCHANGED << currentTrack, timers >>
     ELSE /\ Len(timers) < MaxTimers
          /\ currentTrack' = id
          /\ SetIsPlaying(TRUE)
          /\ timers' = Append(timers, id)
          /\ AudioLoad(TrackOf(id))
          /\ issued' = <<>>
          /\ toggleHist' = <<>>
          /\ UNCHANGED graph
  /\ lastOp' = "select"
  /\ UNCHANGED << tracks, progress, volume, waveformData, mounted, uploads >>

\* lines 83-88: the callback of the oldest pending setTimeout
TimerFire ==
  /\ timers # <<>>
  /\ timers' = Tail(timers)
  /\ IF audioRefCurrent
     THEN InitAudioContext /\ AudioPlay /\ issued' = <<"play">>
     ELSE issued' = <<>> /\ UNCHANGED << graph, handle >>
  /\ lastOp' = "timer"
  /\ toggleHist' = <<>>
  /\ UNCHANGED << ui, mounted, frames, animationRef, uploads >>

\* handleSeek that stores the fraction itself as the progress
handleSeekFraction(e) ==
  /\ mounted
  /\ currentTrack # None
  /\ e \in Clicks
  /\ LET percent == Rat(e.x, e.width) IN
       /\ currentTime' = RatMul(percent, RatInt(audioDuration))
       /\ progress' = percent
       /\ ended' = FALSE
  /\ lastOp' = "seek"
  /\ issued' = <<>>
  /\ toggleHist' = <<>>
  /\ UNCHANGED << tracks, currentTrack, isPlaying, volume, waveformData,
                  mounted, sampler, timers, uploads, audioSrc, audioDuration,
                  paused, audioVolume, handleCmd >>

\* lines 110-118: a click on the progress bar
handleSeek(e) ==
  /\ mounted
  /\ currentTrack # None
  /\ e \in Clicks
  /\ LET percent == Rat(e.x, e.width) IN
       IF audioRefCurrent
       THEN /\ currentTime' = RatMul(percent, RatInt(audioDuration))
            /\ progress' = RatMul(percent, RatInt(100))
            /\ ended' = FALSE
       ELSE UNCHANGED << currentTime, progress, ended >>
  /\ lastOp' = "seek"
  /\ issued' = <<>>
  /\ toggleHist' = <<>>
  /\ UNCHANGED << tracks, currentTrack, isPlaying, volume, waveformData,
                  mounted, sampler, timers, uploads, audioSrc, audioDuration,
                  paused, audioVolume, handleCmd >>

\* lines 120-126: the volume slider
handleVolumeChange(newVolume) ==
  /\ mounted
  /\ currentTrack # None
  /\ newVolume \in Volumes
  /\ volume' = newVolume
  /\ audioVolume' = IF audioRefCurrent THEN newVolume ELSE audioVolume
  /\ lastOp' = "setVolume"
  /\ issued' = <<>>
  /\ toggleHist' = <<>>
  /\ UNCHANGED << tracks, currentTrack, isPlaying, progress, waveformData,
                  mounted, sampler, timers, uploads, audioSrc, audioDuration,
                  paused, ended, currentTime, handleCmd >>

\* removeTrack that clears the current track and leaves isPlaying
removeTrackKeepsPlaying(id) ==
  /\ mounted
  /\ id \in TrackIds
  /\ tracks' = Filter(tracks, id)
  /\ currentTrack' = IF currentTrack = id THEN None ELSE currentTrack
  /\ lastOp' = "removeTrack"
  /\ issued' = <<>>
  /\ toggleHist' = <<>>
  /\ UNCHANGED << isPlaying, progress, volume, waveformData, mounted, sampler,
                  timers, uploads, handle >>

\* removeTrack that only filters the registry
removeTrackOnlyFilters(id) ==
  /\ mounted
  /\ id \in TrackIds
  /\ tracks' = Filter(tracks, id)
  /\ lastOp' = "removeTrack"
  /\ issued' = <<>>
  /\ toggleHist' = <<>>
  /\ UNCHANGED << currentTrack, isPlaying, progress, volume, waveformData,
                  mounted, sampler, timers, uploads, handle >>

\* lines 134-140 (line 469: the remove button of a listed track)
removeTrack(id) ==
  /\ mounted
  /\ id \in TrackIds
  /\ tracks' = Filter(tracks, id)
  /\ IF currentTrack = id
     THEN currentTrack' = None /\ SetIsPlaying(FALSE)
     ELSE UNCHANGED << currentTrack, isPlaying, frames, animationRef >>
  /\ lastOp' = "removeTrack"
  /\ issued' = <<>>
  /\ toggleHist' = <<>>
  /\ UNCHANGED << progress, volume, waveformData, mounted, graph, timers,
                  uploads, handle >>

\* ---------------------------------------------------------------- platform
\* positions playback may have reached when timeupdate fires
Positions ==
  IF paused THEN {currentTime}
  ELSE { p \in { RatMul(f, RatInt(audioDuration)) : f \in Fractions } :
           ~RatLess(p, currentTime) }

\* lines 104-108: timeupdate of the element, at the position playback reached
handleTimeUpdate ==
  /\ mounted
  /\ audioSrc # None
  /\ \E p \in Positions :
       /\ currentTime' = p
       /\ progress' =
            IF audioRefCurrent /\ ~isDragging
            THEN RatMul(RatDiv(p, RatInt(audioDuration)), RatInt(100))
            ELSE progress
  /\ lastOp' = "timeupdate"
  /\ issued' = <<>>
  /\ toggleHist' = <<>>
  /\ UNCHANGED << tracks, currentTrack, isPlaying, volume, waveformData,
                  mounted, sampler, timers, uploads, audioSrc, audioDuration,
                  paused, ended, audioVolume, handleCmd >>

\* onEnded that also rewinds the progress bar
onEndedResetsProgress ==
  /\ mounted
  /\ audioSrc # None
  /\ ~paused
  /\ currentTime = RatInt(audioDuration)
  /\ paused' = TRUE
  /\ ended' = TRUE
  /\ SetIsPlaying(FALSE)
  /\ progress' = RatInt(0)
  /\ lastOp' = "ended"
  /\ issued' = <<>>
  /\ toggleHist' = <<>>
  /\ UNCHANGED << tracks, currentTrack, volume, waveformData, mounted, graph,
                  timers, uploads, audioSrc, audioDuration, currentTime,
                  audioVolume, handleCmd >>

\* line 502: ended of the element, fired when playback reaches the end
onEnded ==
  /\ mounted
  /\ audioSrc # None
  /\ ~paused
  /\ currentTime = RatInt(audioDuration)
  /\ paused' = TRUE
  /\ ended' = TRUE
  /\ SetIsPlaying(FALSE)
  /\ lastOp' = "ended"
  /\ issued' = <<>>
  /\ toggleHist' = <<>>
  /\ UNCHANGED << tracks, currentTrack, progress, volume, waveformData,
                  mounted, graph, timers, uploads, audioSrc, audioDuration,
                  currentTime, audioVolume, handleCmd >>

\* lines 39-46: the oldest scheduled animation-frame callback runs
updateWaveform ==
  /\ frames # <<>>
  /\ LET closure == Head(frames)
         rest    == Tail(frames)
         sample  == analyserRefCurrent /\ closure
     IN /\ \E level \in SampleLevels :
             waveformData' =
               IF sample THEN ByteFrequencyData(level) ELSE waveformData
        /\ frames' = RequestFrame(rest, closure).frames
        /\ animationRef' = RequestFrame(rest, closure).ref
        /\ lastOp' = IF sample THEN "sample" ELSE "frame"
  /\ issued' = <<>>
  /\ toggleHist' = <<>>
  /\ UNCHANGED << tracks, currentTrack, isPlaying, progress, volume, mounted,
                  graph, timers, uploads, handle >>

\* the component is torn down: the effect's cleanup runs (line 52)
Unmount ==
  /\ mounted
  /\ mounted' = FALSE
  /\ frames' = Cleanup(frames, animationRef).frames
  /\ animationRef' = Cleanup(frames, animationRef).ref
  /\ lastOp' = "unmount"
  /\ issued' = <<>>
  /\ toggleHist' = <<>>
  /\ UNCHANGED << ui, graph, timers, uploads, handle >>

\* ---------------------------------------------------------------- Spec
Next ==
  \/ \E batch \in Batches : handleFileUpload(batch)
  \/ \E i \in 1..MaxUploads : LoadedMetadata(i)
  \/ TogglePlay
  \/ \E id \in 1..MaxUploads : playTrack(id)
  \/ TimerFire
  \/ \E e \in Clicks : handleSeek(e)
  \/ \E v \in Volumes : handleVolumeChange(v)
  \/ \E id \in 1..MaxUploads : removeTrack(id)
  \/ handleTimeUpdate
  \/ onEnded
  \/ updateWaveform
  \/ Unmount

Spec == Init /\ [][Next]_vars

\* ---------------------------------------------------------------- claims
Idle == currentTrack = None /\ ~isPlaying

C2_SelectPlaysSelectedTrack ==
  [][ /\ \A id \in 1..MaxUploads :
           (currentTrack # id /\ playTrack(id)) =>
             /\ currentTrack' = id
             /\ isPlaying'
             /\ timers' = Append(timers, id)
      /\ (mounted /\ TimerFire) =>
           /\ issued' = <<"play">>
           /\ currentTrack = Head(timers) ]_vars

\* C3: selecting the current track is a step of togglePlay: same current
\* track, isPlaying flipped, same progress, the one pause-or-play command, no
\* resource switch and no deferred callback started.
C3_SelectCurrentIsToggle ==
  [][ \A id \in 1..MaxUploads :
        (currentTrack = id /\ playTrack(id)) =>
          /\ TogglePlayStep
          /\ currentTrack' = currentTrack
          /\ isPlaying' = ~isPlaying
          /\ progress' = progress
          /\ issued' = << IF isPlaying THEN "pause" ELSE "play" >>
          /\ handleCmd' = IF isPlaying THEN "pause" ELSE "play"
          /\ audioSrc' = audioSrc
          /\ timers' = timers ]_vars

\* the current track was selected again and playback paused
C3_Witness ==
  /\ lastOp = "select"
  /\ toggleHist # <<>>
  /\ ~isPlaying
  /\ issued = <<"pause">>

\* C4: after two togglePlay calls in a row, isPlaying is what it was before
\* the first and the current track is unchanged.
C4_ToggleTwiceRestores ==
  Len(toggleHist) = 2 =>
    /\ isPlaying = toggleHist[1].playing
    /\ currentTrack = toggleHist[1].track

\* the play button was clicked twice in a row from Loaded-Playing
C4_Witness ==
  /\ lastOp = "togglePlay"
  /\ Len(toggleHist) = 2
  /\ toggleHist[1].playing
  /\ toggleHist[2].playing = FALSE

\* C5: removing the current track leaves no current track, isPlaying false
\* and the track out of the registry, and from Idle every step other than a
\* select leaves the state Idle.
C5_RemoveCurrentGoesIdle ==
  [][ /\ \A id \in 1..MaxUploads :
           (currentTrack = id /\ removeTrack(id)) =>
             (Idle' /\ id \notin TrackIds')
      /\ (Idle /\ lastOp' # "select") => Idle' ]_vars

\* the deferred callback of a select fired after its track was removed
C5_Witness ==
  /\ lastOp = "timer"
  /\ Idle
  /\ tracks = <<>>
  /\ handleCmd = "play"

\* C6: a click at fraction f = x / width on the progress bar of a current
\* track of duration D sets currentTime to f * D and progress to f * 100 and
\* leaves isPlaying and the current track unchanged.
C6_SeekSetsPositionAndProgress ==
  [][ \A e \in Clicks :
        handleSeek(e) =>
          LET D == TrackOf(currentTrack).duration IN
          /\ currentTime'.n * e.width = e.x * D * currentTime'.d
          /\ progress'.n * e.width = e.x * 100 * progress'.d
          /\ isPlaying' = isPlaying
          /\ currentTrack' = currentTrack ]_vars

\* a seek to the middle of a playing track of 3 seconds
C6_Witness ==
  /\ lastOp = "seek"
  /\ isPlaying
  /\ progress = RatInt(50)
  /\ currentTime = Rat(3, 2)

BytesOnly == \A i \in 1..Len(waveformData) : waveformData[i] \in 0..255

\* C7, as the spec states it: the Spectrum Snapshot has exactly 32 entries
\* and every entry lies in [0,255].
C7_SnapshotHas32Bins == Len(waveformData) = 32 /\ BytesOnly

\* C7, amended: the Spectrum Snapshot has exactly 64 entries and every entry
\* lies in [0,255].
C7_SnapshotHas64Bins == Len(waveformData) = 64 /\ BytesOnly

\* a frame published a snapshot that is not all zero
C7_Witness ==
  /\ lastOp = "sample"
  /\ \E i \in 1..Len(waveformData) : waveformData[i] > 0

C9_OneFrameOnlyWhilePlaying ==
  /\ Len(frames) <= 1
  /\ (~isPlaying \/ ~mounted) => frames = <<>>

\* playback ended after frames had run, and nothing is scheduled
C9_Witness ==
  /\ lastOp = "ended"
  /\ graph
  /\ frames = <<>>
  /\ \E i \in 1..Len(waveformData) : waveformData[i] > 0

\* the files of the model that are not MP3 by type or by suffix
RejectedFiles == { FileD, FileE }

KeptOf(batch) ==
  LET Keep(f) == f \notin RejectedFiles IN SelectSeq(batch, Keep)

\* no track and no file waiting for metadata is a rejected file
NoRejectedFile ==
  /\ \A i \in 1..Len(tracks) : tracks[i].file \notin RejectedFiles
  /\ \A i \in 1..Len(pendingMeta) : pendingMeta[i] \notin RejectedFiles

\* C10: an upload changes neither the registry nor the current track nor
\* isPlaying, the files it leaves waiting for metadata are exactly the MP3
\* files of the batch, and no track or waiting file is ever a rejected file,
\* initially and after every step.
C10_NonMp3NeverATrack ==
  /\ NoRejectedFile
  /\ [][ /\ NoRejectedFile'
         /\ lastOp' = "upload" =>
              /\ tracks' = tracks
              /\ currentTrack' = currentTrack
              /\ isPlaying' = isPlaying
              /\ \A batch \in Batches :
                   handleFileUpload(batch) =>
                     pendingMeta' = pendingMeta \o KeptOf(batch) ]_vars

\* an upload of rejected files only, into an empty registry
C10_Witness ==
  /\ lastOp = "upload"
  /\ tracks = <<>>
  /\ pendingMeta = <<>>
  /\ nextId = 0

\* C11: when ended fires in Loaded-Playing, isPlaying becomes false, the
\* current track and the registry stay as they are (no advance to a later
\* track), and progress is left where it was, at the end (100 percent).
C11_EndedPausesInPlace ==
  [][ (lastOp' = "ended" /\ isPlaying /\ currentTrack # None) =>
        /\ ~isPlaying'
        /\ currentTrack' = currentTrack
        /\ tracks' = tracks
        /\ progress' = progress
        /\ progress' = RatInt(100)
        /\ currentTime' = RatInt(TrackOf(currentTrack).duration) ]_vars

\* playback of the first of two tracks ended: it is still the current track
C11_Witness ==
  /\ lastOp = "ended"
  /\ Len(tracks) = 2
  /\ currentTrack = tracks[1].id
  /\ ~isPlaying
  /\ progress = RatInt(100)
  /\ timers = <<>>

\* C12: whenever no deferred play callback is pending, isPlaying is true
\* exactly when the last command the element received is play and playback
\* has not ended.
C12_FlagAgreesWithHandle ==
  (mounted /\ timers = <<>>) =>
    (isPlaying <=> (handleCmd = "play" /\ ~ended))

\* C13: the volume of Playback State equals the volume of the element in
\* every reachable state, and setVolume sets both to the value given.
C13_VolumeAgreesWithHandle ==
  /\ volume = audioVolume
  /\ lastOp = "setVolume" => volume \in Volumes

====
